---------------------------- MODULE Spec2Model ----------------------------
(***************************************************************************)
(* State-machine model of gr::dtv::atsc_viterbi_decoder_impl               *)
(* (gr-dtv/lib/atsc/atsc_viterbi_decoder_impl.cc).                         *)
(*                                                                         *)
(* The block owns NCODERS single-stream Viterbi decoders (viterbi[]) and   *)
(* NCODERS delay fifos (fifo[]).  work() processes its items in batches of *)
(* NCODERS segments: it demultiplexes the samples of a batch to the        *)
(* decoders, decodes, pushes every decoded dibit through the decoder's     *)
(* fifo, packs what the fifo returns into out_copy, and then, segment by   *)
(* segment, looks up the plinfo tag, copies the packed segment to the      *)
(* output and attaches the delayed tag.                                    *)
(*                                                                         *)
(* The model is a scaled instance: the sizes that the real tables fix      *)
(* (12 coders, 207 bytes per output segment, 312 segments per field) are   *)
(* small numbers here, and every size derived from them is derived the     *)
(* same way as in the program.  The classes the block uses but that are    *)
(* not part of the translated file (the single decoder, the fifo, plinfo   *)
(* and the interleave tables) are modelled from their documented contract. *)
(***************************************************************************)
EXTENDS Integers, Sequences, FiniteSets, TLC

(***************************************************************************)
(* Sizes.                                                                  *)
(***************************************************************************)
\* Number of trellis coders, also the batch size in segments (12).
NCODERS == 2
\* Bytes of one packed output segment (207).
ATSC_MPEG_RS_ENCODED_LENGTH == 1
\* Data segments per field, the modulus of the segment number (312).
ATSC_DSEGS_PER_FIELD == 4
\* "the -4 is for the 4 sync symbols"
SYNC_SYMBOLS == 4
\* Largest decode delay a decoder of the model may have.
MaxDelay == 2
\* Number of batches one behaviour processes at most.
MaxBatches == 3
\* Number of batches one behaviour of SpecTags processes at most.
MaxTagBatches == 2
\* Number of distinct sample streams the environment can feed.
NSeeds == 3
\* Number of dibits fed to the stand-alone fifo at most.
MaxFeed == 5
\* Largest capacity of the stand-alone fifo.
MaxCap == 3

\* Samples of one input segment (832): the sync symbols and 4 dibits per byte.
ATSC_DATA_SEGMENT_LENGTH == SYNC_SYMBOLS + 4 * ATSC_MPEG_RS_ENCODED_LENGTH
\* Symbols one coder gets from one batch (828).
enco_which_max == ATSC_DATA_SEGMENT_LENGTH - SYNC_SYMBOLS
\* Bytes of the packed batch buffer (12 * 207).
OUTPUT_SIZE == NCODERS * ATSC_MPEG_RS_ENCODED_LENGTH

Coders == 0 .. NCODERS - 1
Slots  == 0 .. enco_which_max - 1
Dibits == 0 .. 3

(***************************************************************************)
(* Machine arithmetic on small non-negative integers.                      *)
(***************************************************************************)
RECURSIVE Pow2(_)
Pow2(n) == IF n = 0 THEN 1 ELSE 2 * Pow2(n - 1)

RECURSIVE BitAnd(_, _)
BitAnd(a, b) ==
    IF a = 0 \/ b = 0 THEN 0
    ELSE (a % 2) * (b % 2) + 2 * BitAnd(a \div 2, b \div 2)

RECURSIVE BitOr(_, _)
BitOr(a, b) ==
    IF a = 0 THEN b
    ELSE IF b = 0 THEN a
    ELSE (IF a % 2 = 1 \/ b % 2 = 1 THEN 1 ELSE 0)
         + 2 * BitOr(a \div 2, b \div 2)

\* x << s
Shl(x, s) == x * Pow2(s)

(***************************************************************************)
(* The interleave tables of atsc_viterbi_mux.h.  Data symbol q of a batch  *)
(* (sync symbols not counted) sits at sample offset SymbolOffset(q); the   *)
(* symbols go to the coders round-robin; the dibit decoded for data symbol *)
(* q is dibit q of the packed batch, four to a byte, first dibit in the    *)
(* two most significant bits.                                              *)
(***************************************************************************)
SymbolOffset(q) ==
    (q \div enco_which_max) * ATSC_DATA_SEGMENT_LENGTH
    + SYNC_SYMBOLS + (q % enco_which_max)

enco_which_syms(encoder, k) == SymbolOffset(k * NCODERS + encoder)

enco_which_dibits(encoder, k) ==
    LET q == k * NCODERS + encoder
    IN  (q \div 4) * 8 + (6 - 2 * (q % 4))

(***************************************************************************)
(* atsc_single_viterbi, by its contract: decode(sample) consumes one       *)
(* sample and returns the decision for the sample delay() calls earlier.   *)
(* The state of a decoder is the sequence of decisions not yet returned.   *)
(***************************************************************************)
\* The 8 levels of the constellation are -7, -5, .. 7; the decision for a
\* sample is the dibit carried by its two upper bits.
Levels == {2 * l - 7 : l \in 0 .. 7}
Decide(sample) == (sample + 7) \div 4

\* A freshly constructed decoder of delay d.
viterbi_new(d) == [x \in 1 .. d |-> 0]

viterbi_decode(v, sample) ==
    LET all == Append(v, Decide(sample))
    IN  [out |-> Head(all), v |-> Tail(all)]

viterbi_delay(v) == Len(v)

\* best_state_metric(): a diagnostic computed from the decoder's state.
viterbi_best_state_metric(v) ==
    IF Len(v) = 0 THEN 0 ELSE v[Len(v)]

(***************************************************************************)
(* fifo_t, by its contract: a circular buffer of fixed size; stuff stores  *)
(* the new dibit in the slot it returns the old content of.                *)
(***************************************************************************)
fifo_new(size) ==
    [size |-> size, d_queue |-> [x \in 0 .. size - 1 |-> 0], d_index |-> 0]

fifo_reset(f) ==
    [f EXCEPT !.d_queue = [x \in 0 .. f.size - 1 |-> 0], !.d_index = 0]

\* A stuff that reads the slot after storing into it.
fifo_stuff_newest(f, x) ==
    [out |-> x,
     f   |-> [f EXCEPT !.d_queue[f.d_index] = x,
                       !.d_index = IF f.d_index + 1 >= f.size
                                   THEN 0 ELSE f.d_index + 1]]

fifo_stuff(f, x) ==
    [out |-> f.d_queue[f.d_index],
     f   |-> [f EXCEPT !.d_queue[f.d_index] = x,
                       !.d_index = IF f.d_index + 1 >= f.size
                                   THEN 0 ELSE f.d_index + 1]]

(***************************************************************************)
(* plinfo, by its contract: the position of a segment in the frame, kept   *)
(* as a 64-bit tag value (flags in the upper half-word, segment number in  *)
(* the lower one).                                                         *)
(***************************************************************************)
FlagField2 == 16

plinfo_get_tag_value(pli) ==
    (IF pli.field2 THEN FlagField2 ELSE 0) * 65536 + pli.segno

plinfo_from_tag_value(val) ==
    [segno  |-> val % 65536,
     field2 |-> ((val \div 65536) \div FlagField2) % 2 = 1]

\* plinfo::delay(out, in, nsegs_of_delay)
plinfo_delay(pli_in, nsegs_of_delay) ==
    LET s == pli_in.segno + nsegs_of_delay
    IN  IF s >= ATSC_DSEGS_PER_FIELD
        THEN [segno |-> s - ATSC_DSEGS_PER_FIELD, field2 |-> ~pli_in.field2]
        ELSE [segno |-> s, field2 |-> pli_in.field2]


(***************************************************************************)
(* What the environment hands to a call.                                   *)
(***************************************************************************)
Seeds == 0 .. NSeeds - 1

\* The number of segments the batches of a call of n items span.  It is n
\* when n is a multiple of NCODERS; otherwise the last batch reaches past
\* the items handed to the call.
Span(n) == ((n + NCODERS - 1) \div NCODERS) * NCODERS

\* Sample stream number seed, as the memory behind the input pointer:
\* nseg segments of samples.  Stream 0 is the constant lowest level.
InputOf(seed, nseg) ==
    [x \in 0 .. nseg * ATSC_DATA_SEGMENT_LENGTH - 1 |->
        2 * ((seed * (x + (x \div 3) + 1)) % 8) - 7]

\* The tag value of the segment that follows segment (segno, field2) by p.
TagAt(segno, field2, p) ==
    LET t == segno + p
    IN  plinfo_get_tag_value(
            [segno  |-> t % ATSC_DSEGS_PER_FIELD,
             field2 |-> (field2 = ((t \div ATSC_DSEGS_PER_FIELD) % 2 = 0))])

\* The plinfo tags of nseg consecutive segments starting at (segno, field2):
\* for each position the sequence of tags found there.  Position miss (if
\* any) carries no tag, position twice (if any) carries a second one.
TagsOf(segno, field2, nseg, miss, twice) ==
    [p \in 0 .. nseg - 1 |->
        IF p = miss THEN << >>
        ELSE IF p = twice
             THEN << TagAt(segno, field2, p), TagAt(segno, field2, p + 1) >>
             ELSE << TagAt(segno, field2, p) >>]

(***************************************************************************)
(* work(), lines 95-146, as a function of the state it starts in and of    *)
(* its arguments.                                                          *)
(***************************************************************************)
\* A demultiplexer that forgets the batch it is in.
SymbolIndex_NoBatch(i, encoder, k) ==
    (enco_which_syms(encoder, k) \div ATSC_DATA_SEGMENT_LENGTH)
        * ATSC_DATA_SEGMENT_LENGTH
    + (enco_which_syms(encoder, k) % ATSC_DATA_SEGMENT_LENGTH)

\* Lines 98-102: the sample read for (encoder, k) in the batch starting at
\* item i.
SymbolIndex(i, encoder, k) ==
    (i + (enco_which_syms(encoder, k) \div ATSC_DATA_SEGMENT_LENGTH))
        * ATSC_DATA_SEGMENT_LENGTH
    + (enco_which_syms(encoder, k) % ATSC_DATA_SEGMENT_LENGTH)

Demux(in, i) ==
    [encoder \in Coders |-> [k \in Slots |-> in[SymbolIndex(i, encoder, k)]]]

\* Lines 107-109 for one encoder: its decoder run over its symbols in order.
RECURSIVE DecodeRun(_, _, _, _)
DecodeRun(v, syms, k, dibits) ==
    IF k = enco_which_max THEN [v |-> v, dibits |-> dibits]
    ELSE LET r == viterbi_decode(v, syms[k])
         IN  DecodeRun(r.v, syms, k + 1, [dibits EXCEPT ![k] = r.out])

\* A store that overwrites the whole byte.
StoreDibit_WholeByte(byte, dibit, shift) == Shl(dibit, shift) % 256

\* A store that does not clear the bit-pair it writes.
StoreDibit_KeepOld(byte, dibit, shift) ==
    BitOr(byte, Shl(dibit, shift)) % 256

\* Line 118-119: the byte of out_copy with one dibit stored at shift.
StoreDibit(byte, dibit, shift) ==
    BitOr(BitAnd(byte, 255 - (Shl(3, shift) % 256)), Shl(dibit, shift)) % 256

\* A packer that stuffs the fifo with the dibit of the next encoder.
StuffOne_Neighbour(f, dibits, encoder, k) ==
    fifo_stuff(f, dibits[(encoder + 1) % NCODERS][k])

\* A packer that stuffs the fifo but packs the decoder's own dibit.
StuffOne_Undelayed(f, dibits, encoder, k) ==
    [fifo_stuff(f, dibits[encoder][k]) EXCEPT !.out = dibits[encoder][k]]

\* Line 119: the dibit of (encoder, k) goes through the encoder's fifo, and
\* what the fifo returns is what gets packed.
StuffOne(f, dibits, encoder, k) == fifo_stuff(f, dibits[encoder][k])

\* Lines 112-121: encoder by encoder, slot by slot (idx counts both).
\* steps records, store by store, the buffer before and after it.
RECURSIVE PackLoop(_, _, _, _, _, _)
PackLoop(oc, ff, packed, steps, dibits, idx) ==
    IF idx = NCODERS * enco_which_max
    THEN [out_copy |-> oc, fifo |-> ff, packed |-> packed, steps |-> steps]
    ELSE LET encoder == idx \div enco_which_max
             k       == idx % enco_which_max
             dbwhere == enco_which_dibits(encoder, k)
             dbindex == dbwhere \div 8
             shift   == dbwhere % 8
             r       == StuffOne(ff[encoder], dibits, encoder, k)
             oc1     == [oc EXCEPT ![dbindex] = StoreDibit(@, r.out, shift)]
         IN  PackLoop(oc1,
                      [ff EXCEPT ![encoder] = r.f],
                      [packed EXCEPT ![encoder][k] = r.out],
                      Append(steps, [dbwhere |-> dbwhere, stuffed |-> r.out,
                                     before |-> oc, after |-> oc1]),
                      dibits, idx + 1)

\* Line 133: the output item the packed segment j of batch i is copied to.
OutIndex(i, j) == i * NCODERS + j

\* A delay one segment short.
TagDelay_OneShort == NCODERS - 1

\* Line 139: the delay plinfo::delay is asked for.
TagDelay == NCODERS

\* A tag offset that forgets the batch.
TagOffset_NoBatch(W, i, j) == W + j

\* Line 142: the absolute offset the tag of segment j of batch i goes to.
TagOffset(W, i, j) == W + i + j

\* An exception that takes back what the call has written.
NoTag_Discard(acc) ==
    [acc EXCEPT !.status = "error", !.out = << >>, !.writes = << >>,
                !.added = << >>]

\* Line 130: the exception leaves work(); what was written stays written.
NoTag(acc) == [acc EXCEPT !.status = "error"]

\* Lines 124-145: segment by segment; acc holds what the call has written.
RECURSIVE CopyLoop(_, _, _, _, _, _)
CopyLoop(acc, oc, tags, W, i, j) ==
    IF j = NCODERS THEN acc
    ELSE IF Len(tags[i + j]) = 0
    THEN NoTag(acc)
    ELSE LET pli_in  == plinfo_from_tag_value(tags[i + j][1])
             segment == [b \in 0 .. ATSC_MPEG_RS_ENCODED_LENGTH - 1 |->
                            oc[(j * OUTPUT_SIZE) \div NCODERS + b]]
             pli_out == plinfo_delay(pli_in, TagDelay)
             tag     == [offset |-> TagOffset(W, i, j),
                         value  |-> plinfo_get_tag_value(pli_out)]
         IN  CopyLoop([acc EXCEPT
                          !.out    = (OutIndex(i, j) :> segment) @@ @,
                          !.writes = Append(@, OutIndex(i, j)),
                          !.added  = Append(@, tag)],
                      oc, tags, W, i, j + 1)

\* Lines 95-146: batch by batch.
RECURSIVE WorkLoop(_, _, _, _, _, _)
WorkLoop(acc, in, tags, W, n, i) ==
    IF i >= n \/ acc.status # "ok" THEN acc
    ELSE LET symbols == Demux(in, i)
             dec == [encoder \in Coders |->
                        DecodeRun(acc.viterbi[encoder], symbols[encoder], 0,
                                  [k \in Slots |-> 0])]
             dibits == [encoder \in Coders |-> dec[encoder].dibits]
             pk  == PackLoop(acc.out_copy, acc.fifo,
                             [encoder \in Coders |-> [k \in Slots |-> 0]],
                             << >>, dibits, 0)
             batch == [i |-> i, symbols |-> symbols, dibits |-> dibits,
                       reads |-> {SymbolIndex(i, encoder, k) :
                                      encoder \in Coders, k \in Slots},
                       packed |-> pk.packed, steps |-> pk.steps,
                       bytes |-> pk.out_copy]
             acc1 == [acc EXCEPT
                         !.viterbi  = [encoder \in Coders |-> dec[encoder].v],
                         !.fifo     = pk.fifo,
                         !.out_copy = pk.out_copy,
                         !.log      = Append(@, batch)]
         IN  WorkLoop(CopyLoop(acc1, pk.out_copy, tags, W, i, 0),
                      in, tags, W, n, i + NCODERS)

\* The whole call.  junk is the content of the uninitialised out_copy.
\* Line 83: with assertions compiled in, a call whose item count is no
\* multiple of NCODERS aborts; with NDEBUG the line is empty.
WorkResult(vit, ff, nd, W, n, in, tags, junk) ==
    LET acc0 == [viterbi |-> vit, fifo |-> ff,
                 out_copy |-> [x \in 0 .. OUTPUT_SIZE - 1 |-> junk],
                 out |-> << >>, writes |-> << >>, added |-> << >>,
                 log |-> << >>, status |-> "ok"]
    IN  IF n % NCODERS # 0 /\ ~nd
        THEN [acc0 EXCEPT !.status = "abort"]
        ELSE WorkLoop(acc0, in, tags, W, n, 0)


(***************************************************************************)
(* The state.                                                              *)
(***************************************************************************)
VARIABLES
    ndebug,          \* the build: TRUE when NDEBUG removes the assertions
    upstream,        \* the frame position of the first segment of the
                     \* input stream, from which upstream counts its tags
    viterbi,         \* viterbi[encoder]: the state of decoder encoder
    fifo,            \* fifo[encoder]: the delay fifo of decoder encoder
    nitems_written,  \* nitems_written(0): items produced so far
    status,          \* how the last call ended: "ok", "error" (the
                     \* exception of line 130) or "abort" (line 83)
    metrics,         \* what the last decoder_metrics() returned
    tag_count,       \* per output offset, the tags attached to it so far
    call,            \* the last call: its arguments and what it wrote
    last_symbols,    \* the symbols of the batch processed last
    nbatches,        \* batches processed since construction
    clean,           \* TRUE while reset() has not been called
    allok,           \* TRUE while every work call met its contract
    q, fed, got      \* a fifo on its own, what was fed to it since its
                     \* last reset and what it returned

corevars == << ndebug, upstream, viterbi, fifo, nitems_written, status,
               metrics, tag_count, call, last_symbols, nbatches, clean,
               allok >>
fifovars == << q, fed, got >>
vars == << ndebug, upstream, viterbi, fifo, nitems_written, status,
           metrics, tag_count, call, last_symbols, nbatches, clean, allok,
           q, fed, got >>

Offsets == 0 .. MaxBatches * NCODERS - 1

NoSymbols == [encoder \in Coders |-> [k \in Slots |-> 0]]

\* A call record for the operations that are not work().
NoCall(op) ==
    [op |-> op, n |-> 0, W |-> 0, in |-> << >>, tags |-> << >>,
     out |-> << >>, writes |-> << >>, added |-> << >>, log |-> << >>,
     prev |-> NoSymbols, nbefore |-> 0,
     pre_viterbi |-> << >>, pre_fifo |-> << >>, ret |-> 0]

(***************************************************************************)
(* The constructor, lines 28-55.                                           *)
(***************************************************************************)
\* Line 47.
fifo_size(vit) == ATSC_DATA_SEGMENT_LENGTH - 4 - viterbi_delay(vit[0])

\* Lines 59-63.
ResetFifos(ff) == [i \in Coders |-> fifo_reset(ff[i])]

\* Lines 48-52.
Construct(vit) == ResetFifos([i \in Coders |-> fifo_new(fifo_size(vit))])

\* Decoder banks: decoder 0 of one delay, the other decoders of another.
Decoders ==
    {[i \in Coders |-> viterbi_new(IF i = 0 THEN d0 ELSE d1)] :
        d0 \in 1 .. MaxDelay, d1 \in 1 .. MaxDelay}

\* A bank of decoders of delay 1.
SameDecoders == {[i \in Coders |-> viterbi_new(1)]}

FramePositions ==
    [segno : 0 .. ATSC_DSEGS_PER_FIELD - 1, field2 : BOOLEAN]

FieldStart == [segno |-> 0, field2 |-> FALSE]

InitCore(decoders, builds, positions) ==
    /\ ndebug \in builds
    /\ upstream \in positions
    /\ viterbi \in decoders
    /\ fifo = Construct(viterbi)
    /\ nitems_written = 0
    /\ status = "ok"
    /\ metrics = << >>
    /\ tag_count = [o \in Offsets |-> 0]
    /\ call = NoCall("new")
    /\ last_symbols = NoSymbols
    /\ nbatches = 0
    /\ clean = TRUE
    /\ allok = TRUE

InitFifo(caps) ==
    /\ q \in {fifo_reset(fifo_new(c)) : c \in caps}
    /\ fed = << >>
    /\ got = << >>

(***************************************************************************)
(* The operations.                                                         *)
(***************************************************************************)
RECURSIVE CountTags(_, _, _)
CountTags(count, added, x) ==
    IF x > Len(added) THEN count
    ELSE CountTags([count EXCEPT ![added[x].offset] = @ + 1], added, x + 1)

\* What is left of a batch once work() is over: out_copy is a local of
\* work(), and with it the store-by-store record of it goes.
Observed(batch) ==
    [i |-> batch.i, symbols |-> batch.symbols, dibits |-> batch.dibits,
     reads |-> batch.reads, packed |-> batch.packed, bytes |-> batch.bytes]

\* work(noutput_items, input_items, output_items), lines 73-149, called
\* with n items, the samples in, the plinfo tags of the input, and junk in
\* the uninitialised out_copy.  The scheduler counts the items of a call
\* that returns.
Work(n, in, tags, junk) ==
    /\ status # "abort"
    /\ nbatches + (Span(n) \div NCODERS) <= MaxBatches
    /\ \E r \in {WorkResult(viterbi, fifo, ndebug, nitems_written,
                            n, in, tags, junk)} :
           /\ viterbi' = r.viterbi
           /\ fifo' = r.fifo
           /\ status' = r.status
           /\ nitems_written' =
                  IF r.status = "ok" THEN nitems_written + n
                  ELSE nitems_written
           /\ tag_count' = CountTags(tag_count, r.added, 1)
           /\ call' = [op |-> "work", n |-> n, W |-> nitems_written,
                       in |-> in, tags |-> tags, out |-> r.out,
                       writes |-> r.writes, added |-> r.added,
                       log |-> [t \in 1 .. Len(r.log) |-> Observed(r.log[t])],
                       prev |-> last_symbols,
                       nbefore |-> nbatches,
                       pre_viterbi |-> viterbi, pre_fifo |-> fifo,
                       ret |-> IF r.status = "ok" THEN n ELSE 0]
           /\ last_symbols' =
                  IF Len(r.log) > 0 THEN r.log[Len(r.log)].symbols
                  ELSE last_symbols
           /\ nbatches' = nbatches + Len(r.log)
           /\ allok' = (allok /\ r.status = "ok" /\ n % NCODERS = 0)
    /\ metrics' = << >>
    /\ UNCHANGED << ndebug, upstream, clean, q, fed, got >>

\* reset(), lines 59-63.
Reset ==
    /\ status # "abort"
    /\ fifo' = ResetFifos(fifo)
    /\ call' = NoCall("reset")
    /\ clean' = FALSE
    /\ metrics' = << >>
    /\ UNCHANGED << ndebug, upstream, viterbi, nitems_written, status,
                    tag_count, last_symbols, nbatches, allok, q, fed, got >>

\* An entry that is always taken from decoder 0.
MetricOf_First(vit, i) == viterbi_best_state_metric(vit[0])

\* Line 69: entry i of the result.
MetricOf(vit, i) == viterbi_best_state_metric(vit[i])

\* decoder_metrics(), lines 65-71.
DecoderMetrics ==
    /\ status # "abort"
    /\ metrics' = [i \in Coders |-> MetricOf(viterbi, i)]
    /\ UNCHANGED << ndebug, upstream, viterbi, fifo, nitems_written, status,
                    tag_count, call, last_symbols, nbatches, clean, allok,
                    q, fed, got >>

\* One stuff() of the fifo on its own.
Stuff(d) ==
    /\ Len(fed) < MaxFeed
    /\ \E r \in {fifo_stuff(q, d)} :
           /\ q' = r.f
           /\ fed' = Append(fed, d)
           /\ got' = Append(got, r.out)
    /\ UNCHANGED corevars

\* One reset() of the fifo on its own.
QReset ==
    /\ q' = fifo_reset(q)
    /\ fed' = << >>
    /\ got' = << >>
    /\ UNCHANGED corevars

(***************************************************************************)
(* The specifications.                                                     *)
(***************************************************************************)
\* The tags upstream attaches to the nseg segments that follow item W of
\* the stream.
GoodTags(W, nseg) ==
    TagsOf(upstream.segno + W, upstream.field2, nseg, -1, -1)

Junk == {0, 255}

\* Spec: every operation of the block, in both builds, with calls of any
\* item count over one sample stream, every segment tagged.
WorkAnySize ==
    \E n \in 1 .. 2 * NCODERS, junk \in Junk :
        Work(n, InputOf(1, Span(n)), GoodTags(nitems_written, Span(n)), junk)

Init == InitCore(SameDecoders, BOOLEAN, {FieldStart}) /\ InitFifo({1})

Next == WorkAnySize \/ Reset \/ DecoderMetrics

Spec == Init /\ [][Next]_vars

\* SpecData: calls of whole batches over any of the sample streams, by
\* any of the decoder banks, every segment tagged.
WorkAnyData ==
    \E m \in 1 .. 2, seed \in Seeds, junk \in Junk :
        Work(m * NCODERS, InputOf(seed, m * NCODERS),
             GoodTags(nitems_written, m * NCODERS), junk)

InitData == InitCore(Decoders, {FALSE}, {FieldStart}) /\ InitFifo({1})

NextData == WorkAnyData

SpecData == InitData /\ [][NextData]_vars

\* SpecTags: calls of whole batches over one sample stream, the input
\* starting anywhere in the frame; a call may find one segment without a
\* tag (miss) or one segment with two (twice).
WorkAnyTags ==
    \E m \in 1 .. 2, miss \in -1 .. 2 * NCODERS - 1, twice \in {-1, 1},
       junk \in Junk :
        /\ nbatches + m <= MaxTagBatches
        /\ miss < m * NCODERS
        /\ miss = -1 \/ twice = -1
        /\ Work(m * NCODERS, InputOf(1, m * NCODERS),
                TagsOf(upstream.segno + nitems_written, upstream.field2,
                       m * NCODERS, miss, twice),
                junk)

InitTags ==
    InitCore(SameDecoders, {FALSE}, FramePositions) /\ InitFifo({1})

NextTags == WorkAnyTags

SpecTags == InitTags /\ [][NextTags]_vars

\* SpecFifo: the fifo on its own.
InitQ ==
    InitCore(SameDecoders, {FALSE}, {FieldStart}) /\ InitFifo(1 .. MaxCap)

NextQ == (\E d \in Dibits : Stuff(d)) \/ QReset

SpecFifo == InitQ /\ [][NextQ]_vars


(***************************************************************************)
(* Properties.                                                             *)
(***************************************************************************)
\* The symbols of the batch processed before batch t of the last call.
SymbolsBefore(t) ==
    IF t = 1 THEN call.prev ELSE call.log[t - 1].symbols

\* Segment j of a packed batch buffer.
PackedSegment(bytes, j) ==
    [b \in 0 .. ATSC_MPEG_RS_ENCODED_LENGTH - 1 |->
        bytes[j * ATSC_MPEG_RS_ENCODED_LENGTH + b]]

C2_FifoDelaysByCapacity ==
    /\ Len(got) = Len(fed)
    /\ \A x \in 1 .. Len(got) :
           got[x] = IF x <= q.size THEN 0 ELSE fed[x - q.size]
    /\ DOMAIN q.d_queue = 0 .. q.size - 1
    /\ q.d_index \in 0 .. q.size - 1

\* C2 witness: more dibits than the capacity were fed, after a reset, and
\* the last one returned is not the fill value.
C2_Witness ==
    /\ q.size >= 2
    /\ Len(fed) > q.size
    /\ got[Len(got)] # 0
    /\ fed[Len(fed)] # got[Len(got)]

\* C3 (as claimed): the capacity of the queue of every encoder is
\* 832 - 4 - D_e, D_e the delay of the decoder of that same encoder.
C3_CapacityFromOwnDecoder ==
    \A encoder \in Coders :
        fifo[encoder].size =
            ATSC_DATA_SEGMENT_LENGTH - 4 - viterbi_delay(viterbi[encoder])

\* What a work call over one batch of sample stream seed would put out,
\* started from decoders vit and fifos ff: segments and tags.
OutputOf(vit, ff, seed) ==
    LET r == WorkResult(vit, ff, ndebug, nitems_written, NCODERS,
                        InputOf(seed, NCODERS),
                        GoodTags(nitems_written, NCODERS), 0)
    IN  << r.out, r.added >>

\* C4 (as claimed): after valid work calls followed by reset, every decoder and
\* every queue is as constructed, and the output for any further input is
\* the output a freshly constructed core gives for it.
C4_ResetRestoresConstruction ==
    (call.op = "reset" /\ nbatches > 0 /\ allok) =>
        LET fresh == [encoder \in Coders |->
                         viterbi_new(viterbi_delay(viterbi[encoder]))]
        IN  /\ viterbi = fresh
            /\ fifo = Construct(fresh)
            /\ \A seed \in Seeds :
                   OutputOf(viterbi, fifo, seed)
                       = OutputOf(fresh, Construct(fresh), seed)

\* The first item of the batch in which the last call failed.
FailedBatch == call.log[Len(call.log)].i

\* C5 (as claimed): a work call that finds a segment of a batch without a
\* plinfo tag ends in the error, and has written no output segment and
\* attached no tag of that batch.
C5_MissingTagNoPartialOutput ==
    (call.op = "work" /\ \E p \in DOMAIN call.tags : call.tags[p] = << >>)
    => /\ status = "error"
       /\ \A j \in 0 .. NCODERS - 1 :
              /\ OutIndex(FailedBatch, j) \notin DOMAIN call.out
              /\ \A x \in 1 .. Len(call.added) :
                     call.added[x].offset # call.W + FailedBatch + j

\* C6 (as claimed): a work call whose item count is no multiple of NCODERS
\* is rejected before anything is processed.
C6_PartialBatchRejected ==
    (call.op = "work" /\ call.n % NCODERS # 0)
    => /\ status = "abort"
       /\ viterbi = call.pre_viterbi
       /\ fifo = call.pre_fifo
       /\ call.log = << >>
       /\ call.out = << >>
       /\ call.added = << >>

\* C7 (as claimed): a work call over n = NCODERS * m tagged segments
\* writes packed segment j of batch b to output item NCODERS * b + j, each
\* of the items 0 .. n - 1 once and nothing outside them.
C7_OutputOneForOne ==
    (call.op = "work" /\ status = "ok" /\ call.n % NCODERS = 0)
    => /\ DOMAIN call.out = 0 .. call.n - 1
       /\ Len(call.writes) = call.n
       /\ \A t \in 1 .. Len(call.log) : \A j \in 0 .. NCODERS - 1 :
              call.out[NCODERS * (t - 1) + j]
                  = PackedSegment(call.log[t].bytes, j)

\* C8: the tag attached at output position p carries the frame position
\* of the first tag found at input position p advanced by exactly
\* NCODERS segments: segment number s + NCODERS modulo the segments of a
\* field, the field changed when the sum passes the end of the field.
C8_TagDelayedByNCoders ==
    call.op = "work" =>
        \A x \in 1 .. Len(call.added) :
            LET p   == call.added[x].offset - call.W
                pin == plinfo_from_tag_value(call.tags[p][1])
                s   == pin.segno + NCODERS
            IN  /\ p \in DOMAIN call.tags
                /\ call.added[x].value =
                       (IF pin.field2 = (s < ATSC_DSEGS_PER_FIELD)
                        THEN FlagField2 ELSE 0) * 65536
                       + (s % ATSC_DSEGS_PER_FIELD)

\* C8 witness: a tag of the second batch of a call whose segment number
\* wrapped into the next field, and one in the same call that did not.
C8_Witness ==
    /\ call.op = "work" /\ Len(call.added) > NCODERS
    /\ \E x \in NCODERS + 1 .. Len(call.added) :
           plinfo_from_tag_value(
               call.tags[call.added[x].offset - call.W][1]).segno
               + NCODERS >= ATSC_DSEGS_PER_FIELD
    /\ \E x \in 1 .. Len(call.added) :
           plinfo_from_tag_value(
               call.tags[call.added[x].offset - call.W][1]).segno
               + NCODERS < ATSC_DSEGS_PER_FIELD

\* C9: a successful work call over n segments attaches one tag to each
\* of the offsets W .. W + n - 1, in this order, and none to any other;
\* after successful calls only, every offset produced so far carries one
\* tag and no other offset carries any.
C9_OneTagPerOutputItem ==
    /\ (call.op = "work" /\ status = "ok" /\ call.n % NCODERS = 0)
       => /\ Len(call.added) = call.n
          /\ \A p \in 0 .. call.n - 1 :
                 call.added[p + 1].offset = call.W + p
    /\ allok =>
          \A o \in Offsets :
              tag_count[o] = IF o < nitems_written THEN 1 ELSE 0

\* C9 witness: a successful call after another successful call, one of
\* its segments carrying two tags.
C9_Witness ==
    /\ allok /\ call.op = "work" /\ status = "ok"
    /\ call.W > 0 /\ Len(call.added) = call.n
    /\ \E p \in DOMAIN call.tags : Len(call.tags[p]) = 2

\* C10: the symbol demultiplexed for (encoder, k) in the batch starting
\* at segment i is the input sample at offset i * 832 + the table's
\* offset for (encoder, k); with the table's offsets inside 0 .. 12 * 832
\* - 1 every read is inside the NCODERS segments of the batch.
C10_DemuxReadsItsBatch ==
    call.op = "work" =>
        \A t \in 1 .. Len(call.log) :
            LET i == (t - 1) * NCODERS
            IN  /\ \A encoder \in Coders, k \in Slots :
                       call.log[t].symbols[encoder][k] =
                           call.in[i * ATSC_DATA_SEGMENT_LENGTH
                                   + enco_which_syms(encoder, k)]
                /\ (\A encoder \in Coders, k \in Slots :
                        enco_which_syms(encoder, k) \in
                            0 .. NCODERS * ATSC_DATA_SEGMENT_LENGTH - 1)
                   => call.log[t].reads \subseteq
                          i * ATSC_DATA_SEGMENT_LENGTH ..
                              (i + NCODERS) * ATSC_DATA_SEGMENT_LENGTH - 1
                /\ Cardinality(call.log[t].reads)
                       = NCODERS * enco_which_max

\* C10 witness: a call of two batches whose second batch demultiplexes to
\* other symbols than its first.
C10_Witness ==
    /\ call.op = "work" /\ Len(call.log) = 2
    /\ call.log[2].symbols # call.log[1].symbols
    /\ \E k \in Slots : call.log[2].symbols[0][k] # call.log[2].symbols[1][k]

\* Bit b of a byte.
BitOf(byte, b) == (byte \div Pow2(b)) % 2

\* The last call again, from the state it started in, its out_copy
\* holding junk at its start.
CallAgain(junk) ==
    WorkResult(call.pre_viterbi, call.pre_fifo, ndebug, call.W, call.n,
               call.in, call.tags, junk)

\* C11: whatever out_copy holds when the call starts, the store of one
\* dibit with output bit offset w changes only the two bits at shift
\* w mod 8 of byte w div 8 of the packed batch buffer and sets them to the
\* dibit the fifo returned; every other bit of that byte and every other
\* byte of the buffer stay as they were.
C11_StoreTouchesItsBitPair ==
    call.op = "work" =>
        \A junk \in Junk : \E r \in {CallAgain(junk)} :
            \A t \in 1 .. Len(r.log) :
                \A x \in 1 .. Len(r.log[t].steps) :
                    LET st    == r.log[t].steps[x]
                        byte  == st.dbwhere \div 8
                        shift == st.dbwhere % 8
                    IN  /\ (st.after[byte] \div Pow2(shift)) % 4 = st.stuffed
                        /\ \A b \in 0 .. 7 :
                               b \notin {shift, shift + 1} =>
                                   BitOf(st.after[byte], b)
                                       = BitOf(st.before[byte], b)
                        /\ \A o \in 0 .. OUTPUT_SIZE - 1 :
                               o # byte => st.after[o] = st.before[o]
                        /\ st.after[byte] \in 0 .. 255
                        /\ st.stuffed =
                               call.log[t].packed[(x - 1) \div enco_which_max]
                                                 [(x - 1) % enco_which_max]

\* C11 witness: a store of the last call that changed its bit-pair to a
\* dibit that is not 0, in a byte whose other bits were neither all 0 nor
\* all 1.
C11_Witness ==
    /\ call.op = "work"
    /\ \E junk \in Junk : \E r \in {CallAgain(junk)} :
           \E t \in 1 .. Len(r.log) :
               \E x \in 1 .. Len(r.log[t].steps) :
                   LET st    == r.log[t].steps[x]
                       byte  == st.dbwhere \div 8
                       shift == st.dbwhere % 8
                   IN  /\ st.stuffed # 0
                       /\ (st.before[byte] \div Pow2(shift)) % 4 # st.stuffed
                       /\ \E b1, b2 \in (0 .. 7) \ {shift, shift + 1} :
                              /\ BitOf(st.before[byte], b1) = 0
                              /\ BitOf(st.before[byte], b2) = 1

\* The output bit offsets the packer of one batch stores at.
DibitTargets == {enco_which_dibits(encoder, k) : encoder \in Coders, k \in Slots}

\* C12: the NCODERS * K stores of a batch go to pairwise distinct
\* bit-pairs that cover every bit of the packed batch buffer once, so the
\* buffer copied to the output holds, bit-pair by bit-pair, the dibits the
\* fifos returned in that batch and nothing else: what the call writes
\* does not depend on what out_copy held when the call started.
C12_PackerCoversBuffer ==
    /\ Cardinality(DibitTargets) = NCODERS * enco_which_max
    /\ DibitTargets = {2 * x : x \in 0 .. 4 * OUTPUT_SIZE - 1}
    /\ call.op = "work" =>
           /\ \A t \in 1 .. Len(call.log) :
                  /\ \A o \in 0 .. OUTPUT_SIZE - 1 :
                         call.log[t].bytes[o] \in 0 .. 255
                  /\ \A encoder \in Coders, k \in Slots :
                         LET w == enco_which_dibits(encoder, k)
                         IN  (call.log[t].bytes[w \div 8]
                                  \div Pow2(w % 8)) % 4
                                 = call.log[t].packed[encoder][k]
           /\ \A junk \in Junk :
                  LET r == CallAgain(junk)
                  IN  /\ r.out = call.out
                      /\ r.writes = call.writes
                      /\ r.status = status

\* C12 witness: a call of two batches that wrote a byte that is neither
\* 0 nor 255 in its first batch and packed its second batch to something
\* else than its first, and wrote all its segments.
C12_Witness ==
    /\ call.op = "work" /\ Len(call.log) = 2 /\ call.nbefore > 0
    /\ \E o \in 0 .. OUTPUT_SIZE - 1 : call.log[1].bytes[o] \notin {0, 255}
    /\ call.log[2].bytes # call.log[1].bytes
    /\ Len(call.writes) = 2 * NCODERS

\* TRUE when every symbol of the demultiplexed batch decodes to dibit 0.
DecodesToZero(symbols) ==
    \A encoder \in Coders, k \in Slots : Decide(symbols[encoder][k]) = 0

\* The packing of dibits that are all 0, which is also the packing of the
\* initial fill value of the fifos.
ZeroSegment == [b \in 0 .. ATSC_MPEG_RS_ENCODED_LENGTH - 1 |-> 0]

\* The first two batches since construction, all of whose symbols decode
\* to dibit 0, have been processed up to the end of the last call.
ZeroRun ==
    /\ call.op = "work" /\ clean /\ status = "ok"
    /\ call.n % NCODERS = 0
    /\ call.nbefore + Len(call.log) <= 2
    /\ call.nbefore = 1 => DecodesToZero(call.prev)
    /\ \A t \in 1 .. Len(call.log) : DecodesToZero(call.log[t].symbols)

\* C13 (as claimed): from a freshly constructed core fed 2 * NCODERS
\* segments whose symbols decode to all-zero dibits, the output segments
\* NCODERS + 1 .. 2 * NCODERS are the packing of all-zero dibits and the
\* output segments 1 .. NCODERS the packing of the fifos' fill value: every
\* output item the calls were to produce holds that packing.
C13_ZeroRunEndToEnd ==
    ZeroRun =>
        \A p \in call.W .. call.W + call.n - 1 :
            /\ p - call.W \in DOMAIN call.out
            /\ call.out[p - call.W] = ZeroSegment

\* C14: decoder_metrics returns one value per decoder, entry e the best
\* path metric of decoder e, and changes neither a decoder nor a fifo nor
\* anything else work or reset read: a step that returns metrics leaves
\* the state as it was, and with it the output and the tags of every
\* call that follows.
C14_MetricsReadOnly ==
    /\ [](metrics # << >> =>
              /\ DOMAIN metrics = Coders
              /\ \A encoder \in Coders :
                     metrics[encoder]
                         = viterbi_best_state_metric(viterbi[encoder]))
    /\ [][metrics' # << >> =>
              /\ viterbi' = viterbi
              /\ fifo' = fifo
              /\ nitems_written' = nitems_written
              /\ status' = status
              /\ tag_count' = tag_count
              /\ \A seed \in Seeds :
                     OutputOf(viterbi', fifo', seed)
                         = OutputOf(viterbi, fifo, seed)]_vars

\* C14 witness: metrics returned between work calls, after a reset, by
\* decoders whose metrics differ.
C14_Witness ==
    /\ metrics # << >>
    /\ nbatches > 0 /\ ~clean /\ allok
    /\ call.op = "work"
    /\ \E e1, e2 \in Coders : metrics[e1] # metrics[e2]

\* The segments a call wrote, by position in the output stream: the
\* output pointer of a call that starts at item W points at position W.
StreamOf(W, out) == [p \in {W + x : x \in DOMAIN out} |-> out[p - W]]

\* Batch b (0 or 1) of the last call as a call of its own: its samples
\* and its tags.
BatchInput(b) ==
    [x \in 0 .. NCODERS * ATSC_DATA_SEGMENT_LENGTH - 1 |->
        call.in[b * NCODERS * ATSC_DATA_SEGMENT_LENGTH + x]]

BatchTags(b) == [p \in 0 .. NCODERS - 1 |-> call.tags[b * NCODERS + p]]

\* The last call, of two batches, made as two calls of one batch each.
FirstOfTwo(junk) ==
    WorkResult(call.pre_viterbi, call.pre_fifo, ndebug, call.W, NCODERS,
               BatchInput(0), BatchTags(0), junk)

SecondOfTwo(first, junk) ==
    WorkResult(first.viterbi, first.fifo, ndebug, call.W + NCODERS, NCODERS,
               BatchInput(1), BatchTags(1), junk)

\* What the two calls attach and how they leave decoders and fifos.
SameTagsAndState(r1, r2) ==
    /\ r1.status = "ok" /\ r2.status = "ok"
    /\ call.added = r1.added \o r2.added
    /\ viterbi = r2.viterbi
    /\ fifo = r2.fifo

\* C15 (as claimed): one work call over 2 * NCODERS segments gives what
\* two successive calls over NCODERS segments each give: the same bytes at
\* the same positions of the output stream, the same tags at the same
\* offsets, the same decoders and fifos at the end.
C15_OneCallAsManyCalls ==
    (call.op = "work" /\ status = "ok" /\ call.n = 2 * NCODERS) =>
        \A junk \in Junk :
            \E r1 \in {FirstOfTwo(junk)} : \E r2 \in {SecondOfTwo(r1, junk)} :
                /\ SameTagsAndState(r1, r2)
                /\ StreamOf(call.W, call.out)
                       = StreamOf(call.W, r1.out)
                             @@ StreamOf(call.W + NCODERS, r2.out)

\* The input offsets the last call demultiplexes to encoder.
SamplesOf(encoder) ==
    {SymbolIndex(i, encoder, k) :
        i \in {b * NCODERS : b \in 0 .. (Span(call.n) \div NCODERS) - 1},
        k \in Slots}

\* The input of the last call with every sample outside mine replaced by
\* the opposite level, which decodes to another dibit.
OtherInput(mine) ==
    [x \in DOMAIN call.in |->
        IF x \in mine THEN call.in[x] ELSE 0 - call.in[x]]

\* The decoders and fifos the last call started with, those of the other
\* encoders put back to their state after construction.
OtherDecoders(encoder) ==
    [x \in Coders |->
        IF x = encoder THEN call.pre_viterbi[x]
        ELSE viterbi_new(viterbi_delay(call.pre_viterbi[x]))]

OtherFifos(encoder) ==
    [x \in Coders |->
        IF x = encoder THEN call.pre_fifo[x] ELSE fifo_reset(call.pre_fifo[x])]

\* The last call run with other samples and other states for every
\* encoder but encoder, whose samples are those at the offsets mine.
OtherRun(encoder, mine) ==
    WorkResult(OtherDecoders(encoder), OtherFifos(encoder), ndebug, call.W,
               call.n, OtherInput(mine), call.tags, 0)

\* The dibit of (encoder, k) in a packed batch buffer.
PackedAt(bytes, encoder, k) ==
    LET w == enco_which_dibits(encoder, k)
    IN  (bytes[w \div 8] \div Pow2(w % 8)) % 4

\* C16: the decoder and the fifo of an encoder after a work call, and the
\* dibits packed at the output bit offsets of that encoder, depend only
\* on the state of that decoder and fifo before the call and on the
\* samples demultiplexed to that encoder: a run that differs in the
\* samples and in the states of the other encoders agrees on them.
C16_EncodersIndependent ==
    call.op = "work" =>
        \A encoder \in Coders :
            \E mine \in {SamplesOf(encoder)} :
            \E r \in {OtherRun(encoder, mine)} :
                /\ r.viterbi[encoder] = viterbi[encoder]
                /\ r.fifo[encoder] = fifo[encoder]
                /\ Len(r.log) = Len(call.log)
                /\ \A t \in 1 .. Len(call.log) : \A k \in Slots :
                       /\ r.log[t].packed[encoder][k]
                              = call.log[t].packed[encoder][k]
                       /\ PackedAt(r.log[t].bytes, encoder, k)
                              = PackedAt(call.log[t].bytes, encoder, k)

\* C16 witness: a call of two batches after an earlier batch, and a run
\* that differs from it in the samples of the other encoders, in the state
\* those encoders end in and in the dibits packed for them, while the
\* encoder itself packed dibits that are not all equal.
C16_Witness ==
    /\ call.op = "work" /\ call.nbefore > 0 /\ Len(call.log) = 2
    /\ \E encoder \in Coders, other \in Coders :
           \E mine \in {SamplesOf(encoder)} :
           \E r \in {OtherRun(encoder, mine)} :
               /\ other # encoder
               /\ \E x \in DOMAIN call.in : OtherInput(mine)[x] # call.in[x]
               /\ r.viterbi[other] # viterbi[other]
               /\ r.log[2].packed[other] # call.log[2].packed[other]
               /\ \E k1, k2 \in Slots :
                      call.log[2].packed[encoder][k1]
                          # call.log[2].packed[encoder][k2]

\* The tags of the last call, a tag put where one is missing.
FilledTags ==
    [p \in DOMAIN call.tags |->
        IF call.tags[p] = << >> THEN << TagAt(0, FALSE, 0) >>
        ELSE call.tags[p]]

\* The first nb batches of the last call run with no tag missing.
Unfailed(nb) ==
    WorkResult(call.pre_viterbi, call.pre_fifo, ndebug, call.W,
               nb * NCODERS, call.in, FilledTags, 0)

\* The segment of the failed batch the tag check failed at.
FailedSegment ==
    CHOOSE j \in 0 .. NCODERS - 1 :
        /\ call.tags[FailedBatch + j] = << >>
        /\ \A x \in 0 .. j - 1 : call.tags[FailedBatch + x] # << >>

\* C17: when work raises the missing-tag error at segment j of a batch,
\* every decoder and every fifo is in the state it has after that whole
\* batch, and the segments and tags of all earlier batches of the call and
\* of segments 0 .. j - 1 of that batch have been written, as in a call in
\* which no tag is missing; nothing of segment j or later has.
C17_ErrorAfterBatchProcessed ==
    (call.op = "work" /\ status = "error") =>
        \E r \in {Unfailed(Len(call.log))} :
            LET done == FailedBatch + FailedSegment
            IN  /\ viterbi = r.viterbi
                /\ fifo = r.fifo
                /\ Len(call.log) = FailedBatch \div NCODERS + 1
                /\ Len(call.added) = done
                /\ Len(call.writes) = done
                /\ \A x \in 1 .. done :
                       /\ call.added[x] = r.added[x]
                       /\ call.writes[x] = r.writes[x]
                       /\ call.out[call.writes[x]] = r.out[call.writes[x]]
                /\ DOMAIN call.out = {call.writes[x] : x \in 1 .. done}

\* C17 witness: the error at the second segment of the second batch of a
\* call: the decoders and fifos are neither those the call started with
\* nor those after its first batch, and 3 segments were written.
C17_Witness ==
    /\ call.op = "work" /\ status = "error"
    /\ Len(call.log) = 2 /\ FailedSegment = 1
    /\ viterbi # call.pre_viterbi /\ fifo # call.pre_fifo
    /\ viterbi # Unfailed(1).viterbi /\ fifo # Unfailed(1).fifo
    /\ Len(call.writes) = NCODERS + 1
    /\ nitems_written = call.W

=============================================================================
